---- MODULE Spec2Model ----
(***************************************************************************)
(* A model of the two components of playwright-bdd-framework that decide   *)
(* something: the HTTP request client (src/api/client/ApiClient.ts) and    *)
(* the self-healing locator (src/core/utils/auto-heal.ts).                 *)
(*                                                                         *)
(* Both are async functions.  Each action below is one synchronous run of  *)
(* the code between two awaits: it starts where a promise settles (or the  *)
(* function is called) and ends at the next await, return or throw.  The   *)
(* collaborators (Playwright's APIRequestContext, APIResponse, Locator)    *)
(* are the environment: which way one of their promises settles is the     *)
(* nondeterminism of the model.                                            *)
(***************************************************************************)
EXTENDS Integers, Sequences, FiniteSets, TLC

\* ------------------------------------------------------------------ bounds

\* The largest options.retries a caller passes.
MaxRetriesOption == 3

\* How many elements may appear on the page during one autoHealLocator call.
MaxPageChanges == 1

VARIABLES
    pc,          \* where makeRequest is: idle, transport, text, backoff, returned, thrown
    caller,      \* the ApiClient the call is made on
    operation,   \* the public operation called
    method,      \* makeRequest's method argument
    path,        \* its path argument
    options,     \* its options argument
    retries,     \* options.retries, as an optional value
    url,         \* const url
    headers,     \* const headers
    timeout,     \* const timeout
    maxRetries,  \* const maxRetries
    attempt,     \* the loop variable
    startTime,   \* const startTime of the attempt
    responseTime, \* const responseTime of the attempt
    lastError,   \* let lastError
    requests,    \* the attempts handed to this.request.<verb>(), in order
    dispatchedAt, \* Date.now() when each of them was handed over
    responses,   \* how the transport settled each of them, in order
    texts,       \* how response.text() settled each time it was called, in order
    delays,      \* the setTimeout delays awaited, in order
    result,      \* the ApiResponseData the call returned
    thrown,      \* the value the call threw
    heap,        \* the content of every object holding headers
    defaultHeadersArg, \* the content of the constructors' defaultHeaders argument when passed
    token,       \* per client, what setAuthToken / clearAuthToken last did
    tokenAtCall, \* token of the caller when the call was made
    now,         \* Date.now()
    apiResponseTimes, \* MetricsCollector's apiResponseTimes
    metricsAtCall, \* apiResponseTimes when the call was made
    calls,       \* how many requests were made so far
    cancelled,   \* whether the test runner cancelled the test
    loggerEnabled, \* Logger.enabled
    suspended,   \* the locals of the other call in flight, waiting at its await
    apiSteps,    \* api.steps.ts in one worker: lastResponse, the scenario and step running
    reporter,    \* the CustomReporter: its tests and the summary onEnd wrote
    hpc,            \* where autoHealLocator is: idle, primaryWait, strategyWait, returned, thrown
    page,           \* the elements visible on the page
    pageChanges,    \* how many elements appeared since the call started
    primaryLocator, \* autoHealLocator's primaryLocator argument
    context,        \* its context argument
    config,         \* its config argument
    strategy,       \* the index in HEALING_STRATEGIES the loop is at
    located,        \* the names of the strategies whose locate() was called, in order
    waits,          \* every waitFor() the call made, in order, with how it settled
    logCalls,       \* the calls made on the module's logger, in order
    healed,         \* the Locator the call returned
    healError,      \* the Error the call threw
    basePage        \* BasePage.click: where it is, its arguments, what it did

clientVars == <<pc, caller, operation, method, path, options, retries, url, headers, timeout,
                maxRetries, attempt, startTime, responseTime, lastError, requests, dispatchedAt,
                responses, texts,
                delays, result, thrown, heap, defaultHeadersArg, token, tokenAtCall, now,
                apiResponseTimes, metricsAtCall, calls, cancelled, loggerEnabled, suspended,
                apiSteps, reporter>>

healVars == <<hpc, page, pageChanges, primaryLocator, context, config, strategy, located, waits,
              logCalls, healed, healError, basePage>>

vars == <<clientVars, healVars>>

\* ============================================================================
\* HTTP request client (src/api/client/ApiClient.ts)
\* ============================================================================

\* An optional value: a property of an options object that may be missing.
Absent == [some |-> FALSE, val |-> 0]

Some(v) == [some |-> TRUE, val |-> v]

\* ------------------------------------------------------------ JS values
\* A string is the sequence of its characters (or of the pieces a template
\* literal joins), so that concatenation is \o and startsWith is a prefix test.

JsUndefined == [type |-> "undefined", num |-> 0, text |-> <<>>]

JsNull == [type |-> "null", num |-> 0, text |-> <<>>]

JsNumber(n) == [type |-> "number", num |-> n, text |-> <<>>]

JsString(s) == [type |-> "string", num |-> 0, text |-> s]

JsBoolean(b) == [type |-> "boolean", num |-> IF b THEN 1 ELSE 0, text |-> <<>>]

\* An object literal, identified by its source text.
JsObject(src) == [type |-> "object", num |-> 0, text |-> src]

JsArray(items) == [type |-> "array", num |-> 0, text |-> <<>>, items |-> items]

\* ToBoolean, as an if condition applies it.
truthy(v) ==
    CASE v.type \in {"undefined", "null"} -> FALSE
      [] v.type = "number" -> v.num # 0
      [] v.type = "boolean" -> v.num = 1
      [] v.type = "string" -> v.text # <<>>
      [] OTHER -> TRUE

\* String.prototype.startsWith
startsWith(s, prefix) ==
    /\ Len(s) >= Len(prefix)
    /\ SubSeq(s, 1, Len(prefix)) = prefix

\* { ...a, ...b }: the keys of both, b's value where both have the key.
spread(a, b) == [k \in DOMAIN a \cup DOMAIN b |-> IF k \in DOMAIN b THEN b[k] ELSE a[k]]

\* delete obj[key]
deleteKey(obj, key) == [k \in DOMAIN obj \ {key} |-> obj[k]]

\* obj[key] = value
setKey(obj, key, value) == [k \in DOMAIN obj \cup {key} |-> IF k = key THEN value ELSE obj[k]]

\* {}
EmptyObject == [k \in {} |-> <<>>]

\* ------------------------------------------------------------ JSON.parse
\* JSON texts over the characters "[", "]" and "1": a number is a run of 1s, an
\* array is empty or holds one value (there is no comma to separate two).

\* The longest response body text.
MaxBodyLen == 3

BodyChars == {"[", "]", "1"}

RECURSIVE textsOfLength(_)
textsOfLength(n) ==
    IF n = 0 THEN {<<>>}
    ELSE {Append(t, ch) : t \in textsOfLength(n - 1), ch \in BodyChars}

\* What response.text() can resolve with.
RawBodies == UNION {textsOfLength(n) : n \in 0..MaxBodyLen}

isNumberText(t) == t # <<>> /\ \A i \in 1..Len(t) : t[i] = "1"

RECURSIVE numberOf(_)
numberOf(t) == IF t = <<>> THEN 0 ELSE 10 * numberOf(SubSeq(t, 1, Len(t) - 1)) + 1

\* JSON.parse(t) returns a value; otherwise it throws a SyntaxError.
RECURSIVE isJson(_)
isJson(t) ==
    \/ isNumberText(t)
    \/ /\ Len(t) >= 2
       /\ t[1] = "["
       /\ t[Len(t)] = "]"
       /\ (Len(t) = 2 \/ isJson(SubSeq(t, 2, Len(t) - 1)))

RECURSIVE JSONparse(_)
JSONparse(t) ==
    IF isNumberText(t) THEN JsNumber(numberOf(t))
    ELSE IF Len(t) = 2 THEN JsArray(<<>>)
    ELSE JsArray(<<JSONparse(SubSeq(t, 2, Len(t) - 1))>>)

\* let body = null; try { body = JSON.parse(rawBody) } catch { body = null }:
\* the fallback that keeps null.
parseBodyOrNull(rawBody) == IF isJson(rawBody) THEN JSONparse(rawBody) ELSE JsNull

\* let body = null; try { body = JSON.parse(rawBody) } catch { body = rawBody }
parseBody(rawBody) == IF isJson(rawBody) THEN JSONparse(rawBody) ELSE JsString(rawBody)

\* ------------------------------------------------------------ the client

\* The ApiClient instances of a test run.
Clients == {"c1", "c2"}

\* The objects holding headers: the object handed to the constructors as
\* defaultHeaders, and one object per instance.
Refs == {"passed"} \cup Clients

\* The five public operations and the verb each passes to makeRequest.
Operations == {"get", "post", "put", "patch", "delete"}

\* patch() passing 'PUT'.
verbOfPatchAsPut(op) ==
    CASE op = "get" -> "GET"
      [] op = "post" -> "POST"
      [] op = "put" -> "PUT"
      [] op = "patch" -> "PUT"
      [] op = "delete" -> "DELETE"

verbOf(op) ==
    CASE op = "get" -> "GET"
      [] op = "post" -> "POST"
      [] op = "put" -> "PUT"
      [] op = "patch" -> "PATCH"
      [] op = "delete" -> "DELETE"

Methods == {"GET", "POST", "PUT", "PATCH", "DELETE"}

\* Status codes a server answers with, success and error ones.
Statuses == {200, 201, 404, 500}

\* Status texts a server answers with.
StatusTexts == {"OK", "Created", ""}

\* The values of options.retries callers pass: none, or 0..MaxRetriesOption.
RetriesOptions == {Absent} \cup {Some(n) : n \in 0..MaxRetriesOption}

\* ENV_CONFIG.API_BASE_URL, the default of the constructor's baseUrl: here the
\* URL https://b.
API_BASE_URL == <<"h", "t", "t", "p", "s", ":", "/", "/", "b">>

baseUrl == API_BASE_URL

\* The paths callers pass: /p, https://a, http://a, httpbin, ftp://a.
Paths == {<<"/", "p">>,
          <<"h", "t", "t", "p", "s", ":", "/", "/", "a">>,
          <<"h", "t", "t", "p", ":", "/", "/", "a">>,
          <<"h", "t", "t", "p", "b", "i", "n">>,
          <<"f", "t", "p", ":", "/", "/", "a">>}

\* path.startsWith('http') ? path : `${this.baseUrl}${path}`
resolveUrl(p) == IF startsWith(p, <<"h", "t", "t", "p">>) THEN p ELSE baseUrl \o p

\* The two defaults every instance starts from.
JsonDefaults ==
    [k \in {"Content-Type", "Accept"} |-> <<"application/json">>]

\* The defaultHeaders objects handed to a constructor: none ({}), an extra
\* header, an override of a JSON default, credentials of another scheme.
PassedHeaders == {EmptyObject,
                  [k \in {"X-Api-Key"} |-> <<"k">>],
                  [k \in {"Content-Type"} |-> <<"text/xml">>],
                  [k \in {"Authorization"} |-> <<"Basic ", "u">>]}

\* The tokens handed to setAuthToken.
Tokens == {<<"t1">>, <<"t2">>}

\* `Bearer ${token}`
bearer(t) == <<"Bearer ">> \o t

\* this.defaultHeaders = defaultHeaders: the instance keeps the caller's object.
thisDefaultHeadersAliased(c) == "passed"

\* this.defaultHeaders = { ... }: the instance owns a new object.
thisDefaultHeaders(c) == c

\* The content of that new object.
constructorHeaders(defaultHeaders) == spread(JsonDefaults, defaultHeaders)

\* options.headers as callers pass them: none, an extra header, an override of
\* a default, an explicit Authorization.
HeadersOptions == {EmptyObject,
                   [k \in {"X-Trace"} |-> <<"1">>],
                   [k \in {"Accept"} |-> <<"text/plain">>],
                   [k \in {"Authorization"} |-> <<"Basic ", "v">>]}

\* The merge written { ...options.headers, ...this.defaultHeaders }: the
\* defaults win.
mergeHeadersDefaultsWin(defaults, optionHeaders) == spread(optionHeaders, defaults)

\* const headers = { ...this.defaultHeaders, ...options.headers }
mergeHeaders(defaults, optionHeaders) == spread(defaults, optionHeaders)

NoParams == [some |-> FALSE, val |-> EmptyObject]

\* options.params as callers pass them: none, { page: '2' }.
ParamsOptions == {NoParams, [some |-> TRUE, val |-> [k \in {"page"} |-> <<"2">>]]}

\* options.body as callers pass it.
Bodies == {JsUndefined, JsObject(<<"{title:'t'}">>), JsString(<<"x">>)}

\* The falsy values a caller can supply as options.body: 0, false, '' and null.
FalsyBodies == {JsNumber(0), JsBoolean(FALSE), JsString(<<>>), JsNull}

\* An options object with none of its properties.
NoOptions == [headers |-> EmptyObject, params |-> NoParams, body |-> JsUndefined,
              timeout |-> Absent, retries |-> Absent]

NoData == [some |-> FALSE, val |-> JsUndefined]

\* executeRequest's requestOptions with the body attached whatever the method.
requestOptionsAnyMethod(m, h, o, t) ==
    [headers |-> h,
     timeout |-> t,
     params |-> IF o.params.some THEN o.params ELSE NoParams,
     data |-> IF truthy(o.body) THEN [some |-> TRUE, val |-> o.body] ELSE NoData]

\* executeRequest's requestOptions: headers, then params and data under their
\* conditions.
requestOptions(m, h, o, t) ==
    [headers |-> h,
     timeout |-> t,
     params |-> IF o.params.some THEN o.params ELSE NoParams,
     data |-> IF truthy(o.body) /\ m \in {"POST", "PUT", "PATCH"}
              THEN [some |-> TRUE, val |-> o.body]
              ELSE NoData]

\* The switch of executeRequest: the call this.request.<verb>(url, requestOptions)
\* that attempt a of client c makes.
executeRequest(c, a, m, u, h, o, t) ==
    [attempt |-> a, client |-> c, verb |-> m, url |-> u, options |-> requestOptions(m, h, o, t)]

\* An object that refers to itself: const body = {}; body.self = body.
JsCircular == [type |-> "object", num |-> 0, text |-> <<"circular">>]

\* JSON.stringify(v) throws a TypeError: v is a cyclic structure.
stringifyThrows(v) == v = JsCircular

\* The TypeError JSON.stringify threw inside log.debug, before any attempt.
StringifyError == [kind |-> "stringify", attempt |-> 0]

\* let lastError: Error | null = null
NullError == [kind |-> "null", attempt |-> 0]

\* The error this.request.<verb>() rejected with on attempt a.
TransportError(a) == [kind |-> "transport", attempt |-> a]

\* The error response.text() rejected with on attempt a.
BodyReadError(a) == [kind |-> "bodyRead", attempt |-> a]

NoResult == [status |-> 0, statusText |-> "", body |-> JsUndefined, rawBody |-> <<>>,
             headers |-> EmptyObject, responseTime |-> 0, url |-> <<>>, method |-> "none"]

\* The header names a transport delivers, in the case it delivers them.
DeliveredHeaders == {EmptyObject,
                     [k \in {"content-type"} |-> <<"application/json">>],
                     [k \in {"Content-Type"} |-> <<"application/json">>],
                     [k \in {"content-type", "X-Request-Id"} |-> <<"1">>]}

\* for (const [key, value] of Object.entries(allHeaders)) headers[key] = value
copyHeaders(allHeaders) == [key \in DOMAIN allHeaders |-> allHeaders[key]]

\* parseResponse once response.text() resolved with rawBody.
parseResponse(response, m, u, rt, rawBody) ==
    [status |-> response.status, statusText |-> response.statusText,
     body |-> parseBody(rawBody), rawBody |-> rawBody,
     headers |-> copyHeaders(response.headers), responseTime |-> rt,
     url |-> u, method |-> m]

\* String.prototype.toLowerCase on the header names in use.
toLowerCase(name) ==
    CASE name = "Content-Type" -> "content-type"
      [] name = "X-Request-Id" -> "x-request-id"
      [] OTHER -> name

\* The push done twice.
addApiResponseTimeTwice(times, duration) == Append(Append(times, duration), duration)

\* MetricsCollector.addApiResponseTime: this.apiResponseTimes.push(duration)
addApiResponseTime(times, duration) == Append(times, duration)

\* ENV_CONFIG.API_TIMEOUT, in ms, when the environment does not set API_TIMEOUT.
API_TIMEOUT == 15000

\* The values of options.timeout callers pass: none, 0 (Playwright's "no
\* timeout"), 1 and 30000 ms.
TimeoutOptions == {Absent, Some(0), Some(1), Some(30000)}

\* options.timeout || ENV_CONFIG.API_TIMEOUT: an omitted timeout and the
\* number 0 are both falsy.
resolveTimeout(t) == IF t.some /\ t.val # 0 THEN t.val ELSE API_TIMEOUT

\* options.retries ?? 1
DefaultRetries == 1

resolveRetries(r) == IF r.some THEN r.val ELSE DefaultRetries

\* The loop condition written attempt < maxRetries: one attempt short.
loopContinuesOneShort(a, max) == a < max

\* The loop condition: attempt <= maxRetries.
loopContinues(a, max) == a <= max

\* The catch block's condition: attempt < maxRetries.
attemptsRemain(a, max) == a < max

\* setTimeout(r, 1000 * attempt)
BackoffUnit == 1000

backoffDelay(a) == BackoffUnit * a

\* The longest the clock runs, in ticks of Date.now().
MaxClock == 3

\* How many requests a test run makes.
MaxCalls == 2

\* What a call fixes before its first await.
callVars == <<caller, operation, method, path, options, retries, url, headers, timeout,
              maxRetries, tokenAtCall, metricsAtCall, calls>>

\* The instances and what the test did to them.
instanceVars == <<heap, defaultHeadersArg, token>>

\* The clock, the test runner, the logger and the other call in flight.
worldVars == <<now, cancelled, loggerEnabled, suspended, apiSteps, reporter>>

\* The loop head with startTime taken once, before the loop.
loopHeadKeepingStart(a, err) ==
    IF loopContinues(a, maxRetries)
    THEN /\ attempt' = a
         /\ startTime' = startTime
         /\ requests' = Append(requests, executeRequest(caller, a, method, url, headers, options,
                                                          timeout))
         /\ dispatchedAt' = Append(dispatchedAt, now)
         /\ pc' = "transport"
         /\ thrown' = thrown
    ELSE /\ attempt' = a
         /\ startTime' = startTime
         /\ requests' = requests
         /\ dispatchedAt' = dispatchedAt
         /\ pc' = "thrown"
         /\ thrown' = err

\* One pass of the loop head for attempt a: either the loop body runs up to the
\* await of executeRequest (the request is dispatched), or the loop is over and
\* the function throws lastError as it stands.
loopHead(a, err) ==
    IF loopContinues(a, maxRetries)
    THEN /\ attempt' = a
         /\ startTime' = now
         /\ requests' = Append(requests, executeRequest(caller, a, method, url, headers, options,
                                                          timeout))
         /\ dispatchedAt' = Append(dispatchedAt, now)
         /\ pc' = "transport"
         /\ thrown' = thrown
    ELSE /\ attempt' = a
         /\ startTime' = startTime
         /\ requests' = requests
         /\ dispatchedAt' = dispatchedAt
         /\ pc' = "thrown"
         /\ thrown' = err

\* Logger.log(level, message, data): nothing when logging is disabled; otherwise
\* the message is printed and JSON.stringify(data) is evaluated, which throws
\* for data it cannot serialize.
logThrows(data) == loggerEnabled /\ stringifyThrows(data)

\* Logger.setEnabled(enabled)
setEnabled(enabled) ==
    /\ loggerEnabled' = enabled
    /\ UNCHANGED <<pc, attempt, startTime, responseTime, lastError, requests, dispatchedAt, responses,
                   texts, delays, result, thrown, apiResponseTimes, now, cancelled, suspended, apiSteps,
                   reporter>>
    /\ UNCHANGED <<callVars, instanceVars>>
    /\ UNCHANGED healVars

\* makeRequest up to the first await: the url, the headers, the timeout and the
\* retry budget, the body logged if (options.body), then the loop head of the
\* first attempt.  A call starts when no call is in flight;
\* what the previous call left is cleared.
makeRequest(c, m, p, o) ==
    /\ pc \in {"idle", "returned", "thrown"}
    /\ calls < MaxCalls
    /\ calls' = calls + 1
    /\ caller' = c
    /\ method' = m
    /\ path' = p
    /\ options' = o
    /\ retries' = o.retries
    /\ url' = resolveUrl(p)
    /\ headers' = mergeHeaders(heap[thisDefaultHeaders(c)], o.headers)
    /\ timeout' = resolveTimeout(o.timeout)
    /\ maxRetries' = resolveRetries(o.retries)
    /\ tokenAtCall' = token[c]
    /\ metricsAtCall' = apiResponseTimes
    /\ lastError' = NullError
    /\ responses' = <<>>
    /\ texts' = <<>>
    /\ delays' = <<>>
    /\ result' = NoResult
    /\ responseTime' = 0
    /\ attempt' = 1
    /\ IF truthy(o.body) /\ logThrows(o.body)
       THEN /\ startTime' = 0
            /\ requests' = <<>>
            /\ dispatchedAt' = <<>>
            /\ pc' = "thrown"
            /\ thrown' = StringifyError
       ELSE IF loopContinues(1, resolveRetries(o.retries))
       THEN /\ startTime' = now
            /\ requests' = <<executeRequest(c, 1, m, resolveUrl(p),
                                            mergeHeaders(heap[thisDefaultHeaders(c)],
                                                         o.headers),
                                            o, resolveTimeout(o.timeout))>>
            /\ dispatchedAt' = <<now>>
            /\ pc' = "transport"
            /\ thrown' = NullError
       ELSE /\ startTime' = 0
            /\ requests' = <<>>
            /\ dispatchedAt' = <<>>
            /\ pc' = "thrown"
            /\ thrown' = NullError
    /\ UNCHANGED <<apiResponseTimes, instanceVars, worldVars>>
    /\ UNCHANGED healVars

\* get/post/put/patch/delete: each hands its verb, the path and the options to
\* makeRequest.
request(c, op, p, o) ==
    /\ operation' = op
    /\ makeRequest(c, verbOf(op), p, o)

\* setAuthToken(token) on client c.
setAuthToken(c, t) ==
    /\ heap' = [heap EXCEPT ![thisDefaultHeaders(c)] = setKey(@, "Authorization", bearer(t))]
    /\ token' = [token EXCEPT ![c] = [state |-> "set", val |-> t]]
    /\ UNCHANGED <<pc, attempt, startTime, responseTime, lastError, requests, dispatchedAt, responses,
                   texts, delays, result, thrown, apiResponseTimes, defaultHeadersArg>>
    /\ UNCHANGED <<callVars, worldVars>>
    /\ UNCHANGED healVars

\* clearAuthToken() on client c.
clearAuthToken(c) ==
    /\ heap' = [heap EXCEPT ![thisDefaultHeaders(c)] = deleteKey(@, "Authorization")]
    /\ token' = [token EXCEPT ![c] = [state |-> "cleared", val |-> <<>>]]
    /\ UNCHANGED <<pc, attempt, startTime, responseTime, lastError, requests, dispatchedAt, responses,
                   texts, delays, result, thrown, apiResponseTimes, defaultHeadersArg>>
    /\ UNCHANGED <<callVars, worldVars>>
    /\ UNCHANGED healVars

\* The catch block, then the loop head of the next attempt when no wait is due.
catchError(e) ==
    /\ lastError' = e
    /\ IF attemptsRemain(attempt, maxRetries)
       THEN /\ delays' = Append(delays, backoffDelay(attempt))
            /\ pc' = "backoff"
            /\ UNCHANGED <<attempt, startTime, requests, dispatchedAt, thrown>>
       ELSE /\ delays' = delays
            /\ loopHead(attempt + 1, e)

\* await this.executeRequest(...) resolves: the transport answered with status s,
\* status text st and headers h.  responseTime is taken, parseResponse starts and
\* awaits response.text().
executeRequestResolves(s, st, h) ==
    /\ pc = "transport"
    /\ responses' = Append(responses, [kind |-> "response", status |-> s, statusText |-> st,
                                       headers |-> h, at |-> now])
    /\ responseTime' = now - startTime
    /\ pc' = "text"
    /\ UNCHANGED <<attempt, startTime, lastError, requests, dispatchedAt, texts, delays, result, thrown,
                   apiResponseTimes>>
    /\ UNCHANGED <<callVars, instanceVars, worldVars>>
    /\ UNCHANGED healVars

\* await this.executeRequest(...) rejects: network error or timeout.
executeRequestRejects ==
    /\ pc = "transport"
    /\ responses' = Append(responses, [kind |-> "error", status |-> 0, statusText |-> "",
                                       headers |-> EmptyObject, at |-> now])
    /\ catchError(TransportError(attempt))
    /\ UNCHANGED <<responseTime, texts, result, apiResponseTimes>>
    /\ UNCHANGED <<callVars, instanceVars, worldVars>>
    /\ UNCHANGED healVars

\* await response.text() resolves with rawBody: the rest of parseResponse, the
\* response time goes to the metrics collector, the call returns the result.
textResolves(rawBody) ==
    /\ pc = "text"
    /\ texts' = Append(texts, [kind |-> "text", text |-> rawBody])
    /\ result' = parseResponse(responses[Len(responses)], method, url, responseTime, rawBody)
    /\ apiResponseTimes' = addApiResponseTime(apiResponseTimes, responseTime)
    /\ pc' = "returned"
    /\ UNCHANGED <<attempt, startTime, responseTime, lastError, requests, dispatchedAt, responses, delays,
                   thrown>>
    /\ UNCHANGED <<callVars, instanceVars, worldVars>>
    /\ UNCHANGED healVars

\* await response.text() rejects (the response was disposed): the error leaves
\* parseResponse inside makeRequest's try block.
textRejects ==
    /\ pc = "text"
    /\ texts' = Append(texts, [kind |-> "error", text |-> <<>>])
    /\ catchError(BodyReadError(attempt))
    /\ UNCHANGED <<responseTime, responses, result, apiResponseTimes>>
    /\ UNCHANGED <<callVars, instanceVars, worldVars>>
    /\ UNCHANGED healVars

\* The backoff timer fires: attempt++ and the loop head.
backoffElapses ==
    /\ pc = "backoff"
    /\ loopHead(attempt + 1, lastError)
    /\ UNCHANGED <<responseTime, lastError, responses, texts, delays, result,
                   apiResponseTimes>>
    /\ UNCHANGED <<callVars, instanceVars, worldVars>>
    /\ UNCHANGED healVars

\* Date.now() advances while a call is suspended.
tick ==
    /\ pc \in {"transport", "text", "backoff"}
    /\ now < MaxClock
    /\ now' = now + 1
    /\ UNCHANGED <<pc, attempt, startTime, responseTime, lastError, requests, dispatchedAt, responses,
                   texts, delays, result, thrown, apiResponseTimes, cancelled,
                   loggerEnabled, suspended, apiSteps,
                   reporter>>
    /\ UNCHANGED <<callVars, instanceVars>>
    /\ UNCHANGED healVars

\* The test runner's per-test timeout expires while a call is suspended: the
\* test is cancelled.  Neither function is handed a signal for it.
cancel ==
    /\ ~cancelled
    /\ \/ pc \in {"transport", "text", "backoff"}
       \/ hpc \in {"primaryWait", "strategyWait"}
    /\ cancelled' = TRUE
    /\ UNCHANGED <<pc, attempt, startTime, responseTime, lastError, requests, dispatchedAt, responses,
                   texts, delays, result, thrown, apiResponseTimes, now,
                   loggerEnabled, suspended, apiSteps,
                   reporter>>
    /\ UNCHANGED <<callVars, instanceVars>>
    /\ UNCHANGED healVars


\* The arguments and locals of a call of makeRequest before it is made.
NoCall ==
    [pc |-> "idle", caller |-> "c1", operation |-> "none", method |-> "none", path |-> <<>>,
     options |-> NoOptions, retries |-> Absent, url |-> <<>>, headers |-> EmptyObject,
     timeout |-> 0, maxRetries |-> 0, attempt |-> 0, startTime |-> 0, responseTime |-> 0,
     lastError |-> NullError, requests |-> <<>>, dispatchedAt |-> <<>>, responses |-> <<>>,
     texts |-> <<>>, delays |-> <<>>, result |-> NoResult, thrown |-> NullError,
     tokenAtCall |-> [state |-> "none", val |-> <<>>], metricsAtCall |-> <<>>]

\* The arguments and locals of the call that is running: what the engine keeps
\* of an async function while it waits at an await.
frame ==
    [pc |-> pc, caller |-> caller, operation |-> operation, method |-> method, path |-> path,
     options |-> options, retries |-> retries, url |-> url, headers |-> headers,
     timeout |-> timeout, maxRetries |-> maxRetries, attempt |-> attempt,
     startTime |-> startTime, responseTime |-> responseTime, lastError |-> lastError,
     requests |-> requests, dispatchedAt |-> dispatchedAt, responses |-> responses,
     texts |-> texts, delays |-> delays, result |-> result, thrown |-> thrown,
     tokenAtCall |-> tokenAtCall, metricsAtCall |-> metricsAtCall]

\* The event loop with the loop variable kept on the instance: the call that
\* resumes finds the attempt number the other call left.
switchSharingAttempt ==
    /\ suspended' = frame
    /\ pc' = suspended.pc
    /\ caller' = suspended.caller
    /\ operation' = suspended.operation
    /\ method' = suspended.method
    /\ path' = suspended.path
    /\ options' = suspended.options
    /\ retries' = suspended.retries
    /\ url' = suspended.url
    /\ headers' = suspended.headers
    /\ timeout' = suspended.timeout
    /\ maxRetries' = suspended.maxRetries
    /\ startTime' = suspended.startTime
    /\ responseTime' = suspended.responseTime
    /\ lastError' = suspended.lastError
    /\ requests' = suspended.requests
    /\ dispatchedAt' = suspended.dispatchedAt
    /\ responses' = suspended.responses
    /\ texts' = suspended.texts
    /\ delays' = suspended.delays
    /\ result' = suspended.result
    /\ thrown' = suspended.thrown
    /\ tokenAtCall' = suspended.tokenAtCall
    /\ metricsAtCall' = suspended.metricsAtCall
    /\ UNCHANGED <<attempt, calls, apiResponseTimes, instanceVars, now, cancelled,
                   loggerEnabled, apiSteps,
                   reporter>>
    /\ UNCHANGED healVars

\* Two calls on one client in flight (Promise.all of two requests): while the
\* running call waits at an await, the event loop resumes the other call with
\* its own arguments and locals, or lets the test start it.
switch ==
    /\ suspended' = frame
    /\ pc' = suspended.pc
    /\ caller' = suspended.caller
    /\ operation' = suspended.operation
    /\ method' = suspended.method
    /\ path' = suspended.path
    /\ options' = suspended.options
    /\ retries' = suspended.retries
    /\ url' = suspended.url
    /\ headers' = suspended.headers
    /\ timeout' = suspended.timeout
    /\ maxRetries' = suspended.maxRetries
    /\ attempt' = suspended.attempt
    /\ startTime' = suspended.startTime
    /\ responseTime' = suspended.responseTime
    /\ lastError' = suspended.lastError
    /\ requests' = suspended.requests
    /\ dispatchedAt' = suspended.dispatchedAt
    /\ responses' = suspended.responses
    /\ texts' = suspended.texts
    /\ delays' = suspended.delays
    /\ result' = suspended.result
    /\ thrown' = suspended.thrown
    /\ tokenAtCall' = suspended.tokenAtCall
    /\ metricsAtCall' = suspended.metricsAtCall
    /\ UNCHANGED <<calls, apiResponseTimes, instanceVars, now, cancelled, loggerEnabled,
                   apiSteps,
                   reporter>>
    /\ UNCHANGED healVars
\* ============================================================================
\* Self-healing locator (src/core/utils/auto-heal.ts)
\* ============================================================================

\* An optional string property of ElementContext.
Undefined == [some |-> FALSE, val |-> ""]

Given(s) == [some |-> TRUE, val |-> s]

\* JavaScript's !x for a string | undefined: undefined and "" are falsy.
falsy(o) == ~o.some \/ o.val = ""

\* The visible elements a page may hold.  A tag name is any XML name, so a
\* script can create an element of any tag, "__nonexistent__" included.
SubmitButton ==
    [tag |-> "button", id |-> "#submit", role |-> "button", text |-> "Submit",
     placeholder |-> "", testId |-> "submit-btn"]

RenamedButton ==
    [tag |-> "button", id |-> "#submit-v2", role |-> "button", text |-> "Submit",
     placeholder |-> "", testId |-> "submit-btn"]

OrderLink ==
    [tag |-> "a", id |-> "#order", role |-> "link", text |-> "Submit order",
     placeholder |-> "", testId |-> ""]

NameInput ==
    [tag |-> "input", id |-> "#name", role |-> "textbox", text |-> "",
     placeholder |-> "Name", testId |-> ""]

CustomElement ==
    [tag |-> "__nonexistent__", id |-> "#widget", role |-> "", text |-> "Legacy widget",
     placeholder |-> "", testId |-> ""]

Elements == {SubmitButton, RenamedButton, OrderLink, NameInput, CustomElement}

Pages == SUBSET Elements

\* A Playwright Locator: how it was built, and whether .first() was applied.
Locator(by, value, name, exact) ==
    [by |-> by, value |-> value, name |-> name, exact |-> exact, first |-> FALSE]

\* page.locator(selector)
cssLocator(selector) == Locator("css", selector, Undefined, FALSE)

\* page.getByRole(role, options)
getByRole(role, name) == Locator("role", role, name, FALSE)

\* page.getByText(text, { exact })
getByText(text, exact) == Locator("text", text, Undefined, exact)

\* page.getByPlaceholder(text)
getByPlaceholder(text) == Locator("placeholder", text, Undefined, FALSE)

\* page.getByTestId(testId)
getByTestId(testId) == Locator("testId", testId, Undefined, TRUE)

\* locator.first()
first(loc) == [loc EXCEPT !.first = TRUE]

NoLocator == Locator("none", "", Undefined, FALSE)

\* full.includes(sub), for the texts of Elements and of the contexts below.
includes(full, sub) ==
    \/ sub = full
    \/ sub = ""
    \/ full = "Submit order" /\ sub = "Submit"

\* Whether element el is one the locator resolves to.  A CSS selector here is a
\* type selector or an id selector.
matches(loc, el) ==
    CASE loc.by = "css" -> loc.value = el.tag \/ loc.value = el.id
      [] loc.by = "role" ->
            /\ loc.value = el.role
            /\ loc.name.some => includes(el.text, loc.name.val)
      [] loc.by = "text" ->
            /\ el.text # ""
            /\ IF loc.exact THEN el.text = loc.value ELSE includes(el.text, loc.value)
      [] loc.by = "placeholder" -> el.placeholder # "" /\ includes(el.placeholder, loc.value)
      [] loc.by = "testId" -> el.testId # "" /\ el.testId = loc.value
      [] OTHER -> FALSE

resolvesTo(loc, pg) == {el \in pg : matches(loc, el)}

\* locator.waitFor({ state: 'visible' }) resolves when the locator resolves to a
\* visible element, and rejects when the timeout passes with none.
becomesVisible(loc, pg) == resolvesTo(loc, pg) # {}

\* DEFAULT_CONFIG.timeout
DefaultTimeout == 5000

\* The timeout of each strategy's waitFor.
StrategyTimeout == 2000

DEFAULT_CONFIG == [enabled |-> TRUE, timeout |-> DefaultTimeout, logWarnings |-> TRUE]

Configs ==
    [enabled : BOOLEAN, timeout : {DefaultTimeout, 1000}, logWarnings : BOOLEAN]

Contexts ==
    [originalSelector : {"#submit", "Submit button"},
     role : {Undefined, Given("button")},
     text : {Undefined, Given(""), Given("Submit")},
     placeholder : {Undefined, Given("Name")},
     testId : {Undefined, Given("submit-btn")}]

\* The primary locators callers pass.
PrimaryLocators == {cssLocator("#submit")}

\* page.locator('__nonexistent__')
nonexistent == cssLocator("__nonexistent__")

\* The array with its last entry moved to the front.
HEALING_STRATEGIES_PartialFirst ==
    <<"By Text (partial)", "By Role", "By Text (exact)", "By Placeholder", "By Test ID">>

\* The names of HEALING_STRATEGIES, in the order of the array.
HEALING_STRATEGIES ==
    <<"By Role", "By Text (exact)", "By Placeholder", "By Test ID", "By Text (partial)">>

\* strategy.locate(page, ctx) of the strategy called name.
locate(name, ctx) ==
    CASE name = "By Role" ->
            IF falsy(ctx.role) THEN nonexistent
            ELSE getByRole(ctx.role.val, IF falsy(ctx.text) THEN Undefined ELSE ctx.text)
      [] name = "By Text (exact)" ->
            IF falsy(ctx.text) THEN nonexistent ELSE getByText(ctx.text.val, TRUE)
      [] name = "By Placeholder" ->
            IF falsy(ctx.placeholder) THEN nonexistent
            ELSE getByPlaceholder(ctx.placeholder.val)
      [] name = "By Test ID" ->
            IF falsy(ctx.testId) THEN nonexistent ELSE getByTestId(ctx.testId.val)
      [] name = "By Text (partial)" ->
            IF falsy(ctx.text) THEN nonexistent ELSE getByText(ctx.text.val, FALSE)

NoError == [kind |-> "none", selector |-> ""]

\* new Error(`Element not found: "${originalSelector}". Auto-heal is disabled.`)
notFoundError(ctx) == [kind |-> "notFound", selector |-> ctx.originalSelector]

\* new Error(`Auto-heal exhausted all strategies for: "${originalSelector}". ...`)
healFailedError(ctx) == [kind |-> "healFailed", selector |-> ctx.originalSelector]

\* One call on the logger: its level, which message, and what the message names.
LogCall(level, message, strategyName, selector) ==
    [level |-> level, message |-> message, strategy |-> strategyName, selector |-> selector]

\* if (config.logWarnings) log.warn(`Primary locator FAILED: ...`)
primaryFailedLog(cfg, ctx) ==
    IF cfg.logWarnings
    THEN <<LogCall("warn", "primaryFailed", "", ctx.originalSelector)>>
    ELSE <<>>

\* The warning without the strategy's name.
healedLogUnnamed(cfg, ctx, name) ==
    IF cfg.logWarnings
    THEN <<LogCall("warn", "healed", "", ctx.originalSelector)>>
    ELSE <<>>

\* if (config.logWarnings) log.warn(`Auto-healed! Strategy "${strategy.name}" ...`)
healedLog(cfg, ctx, name) ==
    IF cfg.logWarnings
    THEN <<LogCall("warn", "healed", name, ctx.originalSelector)>>
    ELSE <<>>

\* log.debug(`Strategy "${strategy.name}" did not find element.`)
strategyFailedLog(name) == <<LogCall("debug", "strategyFailed", name, "")>>

\* log.error(`Auto-heal FAILED for "${context.originalSelector}". ...`)
healFailedLog(ctx) == <<LogCall("error", "healFailed", "", ctx.originalSelector)>>

\* A waitFor() in flight.
Wait(loc, ms) == [locator |-> loc, timeout |-> ms, outcome |-> "pending"]

settle(ws, outcome) == [ws EXCEPT ![Len(ws)].outcome = outcome]

\* The loop that, past the end of the array, waits on the last strategy again
\* instead of throwing.
loopStrategiesAgain(i, ws, logs) ==
    IF i <= Len(HEALING_STRATEGIES)
    THEN /\ strategy' = i
         /\ located' = Append(located, HEALING_STRATEGIES[i])
         /\ waits' = Append(ws, Wait(first(locate(HEALING_STRATEGIES[i], context)),
                                     StrategyTimeout))
         /\ logCalls' = logs
         /\ hpc' = "strategyWait"
         /\ UNCHANGED <<healed, healError>>
    ELSE /\ strategy' = i - 1
         /\ located' = located
         /\ waits' = [ws EXCEPT ![Len(ws)].outcome = "pending"]
         /\ logCalls' = logCalls
         /\ hpc' = "strategyWait"
         /\ UNCHANGED <<healed, healError>>

\* The loop over HEALING_STRATEGIES at index i, with the log calls made on the
\* way there: the strategy's locate() and the start of its waitFor(), or, past
\* the end of the array, the error log and the throw.
loopStrategies(i, ws, logs) ==
    IF i <= Len(HEALING_STRATEGIES)
    THEN /\ strategy' = i
         /\ located' = Append(located, HEALING_STRATEGIES[i])
         /\ waits' = Append(ws, Wait(first(locate(HEALING_STRATEGIES[i], context)),
                                     StrategyTimeout))
         /\ logCalls' = logs
         /\ hpc' = "strategyWait"
         /\ UNCHANGED <<healed, healError>>
    ELSE /\ strategy' = i
         /\ located' = located
         /\ waits' = ws
         /\ logCalls' = logs \o healFailedLog(context)
         /\ hpc' = "thrown"
         /\ healError' = healFailedError(context)
         /\ UNCHANGED healed

\* autoHealLocator(page, primaryLocator, context, config), up to the await of
\* primaryLocator.waitFor().
autoHealLocator(pg, loc, ctx, cfg) ==
    /\ hpc = "idle"
    /\ page' = pg
    /\ primaryLocator' = loc
    /\ context' = ctx
    /\ config' = cfg
    /\ waits' = <<Wait(loc, cfg.timeout)>>
    /\ hpc' = "primaryWait"
    /\ UNCHANGED <<pageChanges, strategy, located, logCalls, healed, healError>>
    /\ UNCHANGED clientVars

\* A test calls autoHealLocator once, with any page, context and config.
callAutoHealLocator ==
    /\ hpc = "idle"
    /\ \E pg \in Pages, loc \in PrimaryLocators, ctx \in Contexts, cfg \in Configs :
          autoHealLocator(pg, loc, ctx, cfg)
    /\ UNCHANGED basePage

\* The page renders one more element while a waitFor() is in flight.
elementAppears(el) ==
    /\ hpc \in {"primaryWait", "strategyWait"}
    /\ el \notin page
    /\ pageChanges < MaxPageChanges
    /\ page' = page \cup {el}
    /\ pageChanges' = pageChanges + 1
    /\ UNCHANGED <<hpc, primaryLocator, context, config, strategy, located, waits,
                   logCalls, healed, healError>>
    /\ UNCHANGED <<clientVars, basePage>>

\* primaryVisible with the healing warning logged before the return.
primaryVisibleWarns ==
    /\ hpc = "primaryWait"
    /\ becomesVisible(primaryLocator, page)
    /\ waits' = settle(waits, "visible")
    /\ logCalls' = logCalls \o healedLog(config, context, "Primary")
    /\ healed' = primaryLocator
    /\ hpc' = "returned"
    /\ UNCHANGED <<page, pageChanges, primaryLocator, context, config, strategy,
                   located, healError>>
    /\ UNCHANGED <<clientVars, basePage>>

\* primaryLocator.waitFor() resolves: return primaryLocator.
primaryVisible ==
    /\ hpc = "primaryWait"
    /\ becomesVisible(primaryLocator, page)
    /\ waits' = settle(waits, "visible")
    /\ healed' = primaryLocator
    /\ hpc' = "returned"
    /\ UNCHANGED <<page, pageChanges, primaryLocator, context, config, strategy,
                   located, logCalls, healError>>
    /\ UNCHANGED <<clientVars, basePage>>

\* primaryFails without the check of config.enabled.
primaryFailsIgnoringEnabled ==
    /\ hpc = "primaryWait"
    /\ ~becomesVisible(primaryLocator, page)
    /\ loopStrategies(1, settle(waits, "timeout"),
                      logCalls \o primaryFailedLog(config, context))
    /\ UNCHANGED <<page, pageChanges, primaryLocator, context, config>>
    /\ UNCHANGED <<clientVars, basePage>>

\* primaryLocator.waitFor() rejects: the catch block, then the first strategy.
primaryFails ==
    /\ hpc = "primaryWait"
    /\ ~becomesVisible(primaryLocator, page)
    /\ IF ~config.enabled
       THEN /\ waits' = settle(waits, "timeout")
            /\ healError' = notFoundError(context)
            /\ hpc' = "thrown"
            /\ UNCHANGED <<strategy, located, logCalls, healed>>
       ELSE loopStrategies(1, settle(waits, "timeout"),
                           logCalls \o primaryFailedLog(config, context))
    /\ UNCHANGED <<page, pageChanges, primaryLocator, context, config>>
    /\ UNCHANGED <<clientVars, basePage>>

\* alternativeLocator.first().waitFor() resolves: return alternativeLocator.first().
strategyVisible ==
    /\ hpc = "strategyWait"
    /\ becomesVisible(waits[Len(waits)].locator, page)
    /\ waits' = settle(waits, "visible")
    /\ logCalls' = logCalls \o healedLog(config, context, HEALING_STRATEGIES[strategy])
    /\ healed' = first(locate(HEALING_STRATEGIES[strategy], context))
    /\ hpc' = "returned"
    /\ UNCHANGED <<page, pageChanges, primaryLocator, context, config, strategy,
                   located, healError>>
    /\ UNCHANGED <<clientVars, basePage>>

\* strategyFails stepping over the strategy after the failed one.
strategyFailsSkipping ==
    /\ hpc = "strategyWait"
    /\ ~becomesVisible(waits[Len(waits)].locator, page)
    /\ loopStrategies(strategy + 2, settle(waits, "timeout"),
                      logCalls \o strategyFailedLog(HEALING_STRATEGIES[strategy]))
    /\ UNCHANGED <<page, pageChanges, primaryLocator, context, config>>
    /\ UNCHANGED <<clientVars, basePage>>

\* alternativeLocator.first().waitFor() rejects: the catch block, then the next
\* strategy.
strategyFails ==
    /\ hpc = "strategyWait"
    /\ ~becomesVisible(waits[Len(waits)].locator, page)
    /\ loopStrategies(strategy + 1, settle(waits, "timeout"),
                      logCalls \o strategyFailedLog(HEALING_STRATEGIES[strategy]))
    /\ UNCHANGED <<page, pageChanges, primaryLocator, context, config>>
    /\ UNCHANGED <<clientVars, basePage>>

\* ============================================================================
\* BasePage.click
\* ============================================================================

\* ENV_CONFIG.DEFAULT_TIMEOUT
DEFAULT_TIMEOUT == 30000

\* The healContext argument: omitted, or an object with any of the properties
\* of ElementContext but originalSelector.
HealContexts ==
    {[some |-> FALSE, val |-> [role |-> Undefined, text |-> Undefined,
                               placeholder |-> Undefined, testId |-> Undefined]]}
    \cup [some : {TRUE},
          val : [role : {Undefined, Given("button")}, text : {Undefined, Given("Submit")},
                 placeholder : {Undefined}, testId : {Undefined}]]

\* The description argument: its default and one a page object passes.
Descriptions == {"element", "Submit button"}

\* { ...healContext, originalSelector: description }
withOriginalSelector(healContext, description) ==
    [originalSelector |-> description, role |-> healContext.role, text |-> healContext.text,
     placeholder |-> healContext.placeholder, testId |-> healContext.testId]

\* A click() in flight on locator loc with the given timeout option.
Click(loc, ms) == [locator |-> loc, timeout |-> ms, outcome |-> "pending"]

\* The error a click() on locator loc rejected with.
ClickError(loc) == [kind |-> "click", selector |-> loc.value]

\* BasePage before click is called.
NoClick ==
    [pc |-> "idle", locator |-> NoLocator, description |-> "",
     healContext |-> [some |-> FALSE, val |-> [role |-> Undefined, text |-> Undefined,
                                               placeholder |-> Undefined,
                                               testId |-> Undefined]],
     clicks |-> <<>>, healCalls |-> <<>>, log |-> <<>>, thrown |-> NoError]

\* click(locator, description, healContext) on the page pg up to the await of
\* locator.click({ timeout }).
click(pg, loc, description, healContext) ==
    /\ basePage.pc = "idle"
    /\ hpc = "idle"
    /\ page' = pg
    /\ basePage' = [pc |-> "click", locator |-> loc, description |-> description,
                    healContext |-> healContext,
                    clicks |-> <<Click(loc, Some(DEFAULT_TIMEOUT))>>,
                    healCalls |-> <<>>,
                    log |-> <<LogCall("info", "clicking", "", description)>>,
                    thrown |-> NoError]
    /\ UNCHANGED <<hpc, pageChanges, primaryLocator, context, config, strategy, located, waits,
                   logCalls, healed, healError>>
    /\ UNCHANGED clientVars

\* await locator.click() resolves: click returns.
clickResolves ==
    /\ basePage.pc = "click"
    /\ basePage' = [basePage EXCEPT !.pc = "returned",
                                    !.clicks = settle(@, "clicked")]
    /\ UNCHANGED <<hpc, page, pageChanges, primaryLocator, context, config, strategy, located,
                   waits, logCalls, healed, healError>>
    /\ UNCHANGED clientVars

\* The catch block without its if (healContext): autoHealLocator is called
\* whether or not a healContext was given.
clickRejectsAlwaysHealing ==
    /\ basePage.pc = "click"
    /\ LET ctx == withOriginalSelector(basePage.healContext.val, basePage.description)
       IN  /\ autoHealLocator(page, basePage.locator, ctx, DEFAULT_CONFIG)
           /\ basePage' = [basePage EXCEPT
                  !.pc = "healing",
                  !.clicks = settle(@, "failed"),
                  !.healCalls = Append(@, [page |-> page, primaryLocator |-> basePage.locator,
                                           context |-> ctx]),
                  !.log = Append(@, LogCall("warn", "clickFailed", "",
                                            basePage.description))]

\* await locator.click() rejects: the catch block.  With a healContext the
\* warning is logged and autoHealLocator is called with the default config and
\* awaited; without one the error is thrown again.
clickRejects ==
    /\ basePage.pc = "click"
    /\ IF basePage.healContext.some
       THEN LET ctx == withOriginalSelector(basePage.healContext.val, basePage.description)
            IN  /\ autoHealLocator(page, basePage.locator, ctx, DEFAULT_CONFIG)
                /\ basePage' = [basePage EXCEPT
                       !.pc = "healing",
                       !.clicks = settle(@, "failed"),
                       !.healCalls = Append(@, [page |-> page,
                                                primaryLocator |-> basePage.locator,
                                                context |-> ctx]),
                       !.log = Append(@, LogCall("warn", "clickFailed", "",
                                                 basePage.description))]
       ELSE /\ basePage' = [basePage EXCEPT !.pc = "thrown",
                                            !.clicks = settle(@, "failed"),
                                            !.thrown = ClickError(basePage.locator)]
            /\ UNCHANGED <<hpc, page, pageChanges, primaryLocator, context, config, strategy,
                           located, waits, logCalls, healed, healError>>
            /\ UNCHANGED clientVars

\* await autoHealLocator(...) resolves with healed: healed.click() is called and
\* awaited.
autoHealResolves ==
    /\ basePage.pc = "healing"
    /\ hpc = "returned"
    /\ basePage' = [basePage EXCEPT !.pc = "healedClick",
                                    !.clicks = Append(@, Click(healed, Absent))]
    /\ UNCHANGED <<hpc, page, pageChanges, primaryLocator, context, config, strategy, located,
                   waits, logCalls, healed, healError>>
    /\ UNCHANGED clientVars

\* await autoHealLocator(...) rejects: its error leaves click.
autoHealRejects ==
    /\ basePage.pc = "healing"
    /\ hpc = "thrown"
    /\ basePage' = [basePage EXCEPT !.pc = "thrown", !.thrown = healError]
    /\ UNCHANGED <<hpc, page, pageChanges, primaryLocator, context, config, strategy, located,
                   waits, logCalls, healed, healError>>
    /\ UNCHANGED clientVars

\* await healed.click() resolves: click returns.
healedClickResolves ==
    /\ basePage.pc = "healedClick"
    /\ basePage' = [basePage EXCEPT !.pc = "returned", !.clicks = settle(@, "clicked")]
    /\ UNCHANGED <<hpc, page, pageChanges, primaryLocator, context, config, strategy, located,
                   waits, logCalls, healed, healError>>
    /\ UNCHANGED clientVars

\* await healed.click() rejects: the error leaves click from inside the catch
\* block.
healedClickRejects ==
    /\ basePage.pc = "healedClick"
    /\ basePage' = [basePage EXCEPT !.pc = "thrown", !.clicks = settle(@, "failed"),
                                    !.thrown = ClickError(healed)]
    /\ UNCHANGED <<hpc, page, pageChanges, primaryLocator, context, config, strategy, located,
                   waits, logCalls, healed, healError>>
    /\ UNCHANGED clientVars

\* ============================================================================
\* api.steps.ts in one worker
\* ============================================================================

\* How many scenarios the worker runs.
MaxScenarios == 2

\* let lastResponse: ApiResponseData; once the worker has loaded the module:
\* undefined.  No scenario runs, no step has awaited a call.  storedBy is the
\* scenario whose When step assigned lastResponse, startedWith what storedBy
\* was when the running scenario started, observed what each Then step read.
ModuleLoaded ==
    [scenario |-> 0, awaited |-> 0, failed |-> FALSE,
     lastResponse |-> [defined |-> FALSE, storedBy |-> 0, value |-> NoResult],
     startedWith |-> 0, observed |-> {}]

\* The worker starts the next scenario: the fixtures are set up (a new
\* ApiClient, a placeholder apiResponse that no step takes) and the steps run.
\* The module stays loaded and nothing assigns lastResponse.
startScenario ==
    /\ ~apiSteps.failed
    /\ apiSteps.awaited = calls
    /\ apiSteps.scenario < MaxScenarios
    /\ apiSteps' = [apiSteps EXCEPT !.scenario = @ + 1,
                                    !.startedWith = apiSteps.lastResponse.storedBy]
    /\ UNCHANGED <<pc, attempt, startTime, responseTime, lastError, requests, dispatchedAt,
                   responses, texts, delays, result, thrown, apiResponseTimes, now, cancelled,
                   loggerEnabled, suspended, reporter>>
    /\ UNCHANGED <<callVars, instanceVars>>
    /\ UNCHANGED healVars

\* When('I send a GET request to {string}') up to the await of apiClient.get(path).
whenSendGet(p) ==
    /\ ~apiSteps.failed
    /\ apiSteps.scenario >= 1
    /\ apiSteps.awaited = calls
    /\ request("c1", "get", p, NoOptions)

\* await apiClient.get(path) resolves: lastResponse = the result.
whenSendGetResolves ==
    /\ pc = "returned"
    /\ apiSteps.awaited < calls
    /\ apiSteps' = [apiSteps EXCEPT !.awaited = calls,
                                    !.lastResponse = [defined |-> TRUE,
                                                      storedBy |-> apiSteps.scenario,
                                                      value |-> result]]
    /\ UNCHANGED <<pc, attempt, startTime, responseTime, lastError, requests, dispatchedAt,
                   responses, texts, delays, result, thrown, apiResponseTimes, now, cancelled,
                   loggerEnabled, suspended, reporter>>
    /\ UNCHANGED <<callVars, instanceVars>>
    /\ UNCHANGED healVars

\* await apiClient.get(path) rejects: the step fails and with it the scenario;
\* lastResponse is not assigned.
whenSendGetRejects ==
    /\ pc = "thrown"
    /\ apiSteps.awaited < calls
    /\ apiSteps' = [apiSteps EXCEPT !.awaited = calls, !.failed = TRUE]
    /\ UNCHANGED <<pc, attempt, startTime, responseTime, lastError, requests, dispatchedAt,
                   responses, texts, delays, result, thrown, apiResponseTimes, now, cancelled,
                   loggerEnabled, suspended, reporter>>
    /\ UNCHANGED <<callVars, instanceVars>>
    /\ UNCHANGED healVars

\* Then('the API response status should be {int}'):
\* expect(lastResponse.status).toBe(expectedStatus).  Reading .status of
\* undefined throws; a status that differs fails the step.
thenStatusShouldBe(expectedStatus) ==
    /\ ~apiSteps.failed
    /\ apiSteps.scenario >= 1
    /\ apiSteps.awaited = calls
    /\ apiSteps' = [apiSteps EXCEPT
           !.observed = IF apiSteps.lastResponse.defined
                        THEN @ \cup {[scenario |-> apiSteps.scenario,
                                      storedBy |-> apiSteps.lastResponse.storedBy,
                                      status |-> apiSteps.lastResponse.value.status]}
                        ELSE @,
           !.failed = ~apiSteps.lastResponse.defined
                          \/ apiSteps.lastResponse.value.status # expectedStatus]
    /\ UNCHANGED <<pc, attempt, startTime, responseTime, lastError, requests, dispatchedAt,
                   responses, texts, delays, result, thrown, apiResponseTimes, now, cancelled,
                   loggerEnabled, suspended, reporter>>
    /\ UNCHANGED <<callVars, instanceVars>>
    /\ UNCHANGED healVars

\* ============================================================================
\* CustomReporter
\* ============================================================================

\* How many tests a run records.
MaxTests == 2

\* new CustomReporter(): no test recorded, nothing written.
CustomReporter ==
    [tests |-> <<>>, ended |-> FALSE,
     summary |-> [total |-> 0, passed |-> 0, failed |-> 0, skipped |-> 0, timedOut |-> 0,
                  passRate |-> 0, flaky |-> 0, avgDuration |-> 0, maxDuration |-> 0,
                  minDuration |-> 0]]

\* Math.max(...values): the values are never empty here.
MathMax(values) ==
    CHOOSE m \in {values[i] : i \in 1..Len(values)} :
        \A i \in 1..Len(values) : values[i] <= m

\* Math.min(...values)
MathMin(values) ==
    CHOOSE m \in {values[i] : i \in 1..Len(values)} :
        \A i \in 1..Len(values) : m <= values[i]

\* Math.round(n / d) for n >= 0 and d > 0: halves go up.
MathRound(n, d) == (2 * n + d) \div (2 * d)

\* values.reduce((a, b) => a + b, 0)
RECURSIVE sum(_)
sum(values) == IF values = <<>> THEN 0 ELSE values[1] + sum(Tail(values))

\* onTestEnd(test, result): the test's data is pushed on this.tests.
onTestEnd(status, duration, retry) ==
    /\ ~reporter.ended
    /\ Len(reporter.tests) < MaxTests
    /\ reporter' = [reporter EXCEPT
           !.tests = Append(@, [status |-> status, duration |-> duration, retries |-> retry])]
    /\ UNCHANGED <<pc, attempt, startTime, responseTime, lastError, requests, dispatchedAt,
                   responses, texts, delays, result, thrown, apiResponseTimes, now, cancelled,
                   loggerEnabled, suspended, apiSteps>>
    /\ UNCHANGED <<callVars, instanceVars>>
    /\ UNCHANGED healVars

\* onEnd(result): the summary statistics as they are written to the metrics
\* file.  passRate is in tenths of a percent; the time stamps of the run are
\* left out.
onEnd ==
    /\ ~reporter.ended
    /\ LET tests == reporter.tests
           count(ts, keep(_)) == Cardinality({i \in 1..Len(ts) : keep(ts[i])})
           passed == count(tests, LAMBDA t : t.status = "passed")
           total == Len(tests)
           durations == [i \in 1..Len(tests) |-> tests[i].duration]
       IN  reporter' = [reporter EXCEPT
               !.ended = TRUE,
               !.summary =
                   [total |-> total,
                    passed |-> passed,
                    failed |-> count(tests, LAMBDA t : t.status = "failed"),
                    skipped |-> count(tests, LAMBDA t : t.status = "skipped"),
                    timedOut |-> count(tests, LAMBDA t : t.status = "timedOut"),
                    passRate |-> IF total > 0 THEN MathRound(passed * 1000, total) ELSE 0,
                    flaky |-> count(tests, LAMBDA t : t.retries > 0 /\ t.status = "passed"),
                    avgDuration |-> IF total > 0 THEN MathRound(sum(durations), total) ELSE 0,
                    maxDuration |-> MathMax(Append(durations, 0)),
                    minDuration |-> MathMin(Append(durations, 0))]]
    /\ UNCHANGED <<pc, attempt, startTime, responseTime, lastError, requests, dispatchedAt,
                   responses, texts, delays, result, thrown, apiResponseTimes, now, cancelled,
                   loggerEnabled, suspended, apiSteps>>
    /\ UNCHANGED <<callVars, instanceVars>>
    /\ UNCHANGED healVars

\* resilientLocator(page, selector, healContext)(): autoHealLocator on
\* page.locator(selector) with the selector as originalSelector and the default
\* config.
resilientLocator(pg, selector, healContext) ==
    /\ autoHealLocator(pg, cssLocator(selector),
                       [originalSelector |-> selector, role |-> healContext.role,
                        text |-> healContext.text, placeholder |-> healContext.placeholder,
                        testId |-> healContext.testId],
                       DEFAULT_CONFIG)
    /\ UNCHANGED basePage

\* ============================================================================
\* Specifications
\* ============================================================================

\* The state once both clients are constructed with a defaultHeaders argument
\* out of D, and nothing was called yet.
InitClient(D) ==
    /\ pc = "idle"
    /\ caller = "c1"
    /\ operation = "none"
    /\ method = "none"
    /\ path = <<>>
    /\ options = NoOptions
    /\ retries = Absent
    /\ url = <<>>
    /\ headers = EmptyObject
    /\ timeout = 0
    /\ maxRetries = 0
    /\ attempt = 0
    /\ startTime = 0
    /\ responseTime = 0
    /\ lastError = NullError
    /\ requests = <<>>
    /\ dispatchedAt = <<>>
    /\ responses = <<>>
    /\ texts = <<>>
    /\ delays = <<>>
    /\ result = NoResult
    /\ thrown = NullError
    /\ defaultHeadersArg \in D
    /\ heap = [r \in Refs |-> IF r = "passed"
                              THEN defaultHeadersArg
                              ELSE constructorHeaders(defaultHeadersArg)]
    /\ token = [c \in Clients |-> [state |-> "none", val |-> <<>>]]
    /\ tokenAtCall = [state |-> "none", val |-> <<>>]
    /\ now = 0
    /\ apiResponseTimes = <<>>
    /\ metricsAtCall = <<>>
    /\ calls = 0
    /\ cancelled = FALSE
    /\ loggerEnabled = TRUE
    /\ suspended = NoCall
    /\ apiSteps = ModuleLoaded
    /\ reporter = CustomReporter

InitHeal ==
    /\ hpc = "idle"
    /\ page = {}
    /\ pageChanges = 0
    /\ primaryLocator = NoLocator
    /\ context = [originalSelector |-> "", role |-> Undefined, text |-> Undefined,
                  placeholder |-> Undefined, testId |-> Undefined]
    /\ config = DEFAULT_CONFIG
    /\ strategy = 0
    /\ located = <<>>
    /\ waits = <<>>
    /\ logCalls = <<>>
    /\ healed = NoLocator
    /\ healError = NoError
    /\ basePage = NoClick

\* The clients as the apiClient fixture constructs them: no defaultHeaders.
Init == InitClient({EmptyObject}) /\ InitHeal

\* The clients constructed with any defaultHeaders.
InitAuth == InitClient(PassedHeaders) /\ InitHeal

\* The path of the requests that are not about the URL: /p.
SomePath == <<"/", "p">>

\* The calls a test makes on one ApiClient, one after the other, with every
\* retry budget.
NextClient ==
    \/ \E op \in Operations, r \in RetriesOptions :
          request("c1", op, SomePath, [NoOptions EXCEPT !.retries = r])
    \/ \E s \in Statuses : executeRequestResolves(s, "OK", EmptyObject)
    \/ executeRequestRejects
    \/ textResolves(<<"1">>)
    \/ textRejects
    \/ backoffElapses

\* Single-attempt calls with every path, body and params.
NextRequest ==
    \/ \E op \in Operations, p \in Paths, b \in Bodies, q \in ParamsOptions :
          request("c1", op, p, [NoOptions EXCEPT !.body = b, !.params = q])
    \/ \E s \in {201, 404}, st \in StatusTexts : executeRequestResolves(s, st, EmptyObject)
    \/ executeRequestRejects
    \/ textResolves(<<"1">>)
    \/ textRejects

\* Single-attempt calls answered with every body text and header set.
NextParse ==
    \/ request("c1", "get", SomePath, NoOptions)
    \/ \E h \in DeliveredHeaders : executeRequestResolves(200, "OK", h)
    \/ executeRequestRejects
    \/ \E rawBody \in RawBodies : textResolves(rawBody)
    \/ textRejects

\* Calls with every timeout and with truthy and falsy bodies, with and without
\* retries.
NextOptions ==
    \/ \E op \in {"get", "post", "put", "patch"}, t \in TimeoutOptions,
          b \in FalsyBodies \cup {JsUndefined, JsObject(<<"{title:'t'}">>)},
          r \in {Absent, Some(2)} :
          request("c1", op, SomePath,
                  [NoOptions EXCEPT !.timeout = t, !.body = b, !.retries = r])
    \/ executeRequestResolves(200, "OK", EmptyObject)
    \/ executeRequestRejects
    \/ textResolves(<<"1">>)
    \/ textRejects
    \/ backoffElapses

\* Single-attempt calls with bodies that can and cannot be serialized, with
\* logging switched on and off.
NextLogging ==
    \/ \E enabled \in BOOLEAN : setEnabled(enabled)
    \/ \E op \in {"get", "post"}, b \in {JsUndefined, JsObject(<<"{title:'t'}">>), JsCircular} :
          request("c1", op, SomePath, [NoOptions EXCEPT !.body = b])
    \/ executeRequestResolves(200, "OK", EmptyObject)
    \/ executeRequestRejects
    \/ textResolves(<<"1">>)
    \/ textRejects

\* Two clients, their tokens set and cleared between and during single-attempt
\* calls with every options.headers.
NextAuth ==
    \/ \E c \in Clients, h \in HeadersOptions :
          request(c, "get", SomePath, [NoOptions EXCEPT !.headers = h])
    \/ \E c \in Clients, t \in Tokens : setAuthToken(c, t)
    \/ \E c \in Clients : clearAuthToken(c)
    \/ executeRequestResolves(200, "OK", EmptyObject)
    \/ executeRequestRejects
    \/ textResolves(<<"1">>)
    \/ textRejects

\* Calls with and without retries while the clock runs.
NextMetrics ==
    \/ \E r \in {Absent, Some(0), Some(2)} :
          request("c1", "get", SomePath, [NoOptions EXCEPT !.retries = r])
    \/ executeRequestResolves(200, "OK", EmptyObject)
    \/ executeRequestRejects
    \/ textResolves(<<"1">>)
    \/ textRejects
    \/ backoffElapses
    \/ tick

\* Two requests of one client in flight at once, each with or without retries,
\* while the test sets and clears the client's token.
NextConcurrent ==
    \/ \E r \in {Absent, Some(2)} :
          request("c1", "get", SomePath, [NoOptions EXCEPT !.retries = r])
    \/ executeRequestResolves(200, "OK", EmptyObject)
    \/ executeRequestRejects
    \/ textResolves(<<"1">>)
    \/ textRejects
    \/ backoffElapses
    \/ switch
    \/ setAuthToken("c1", <<"t1">>)
    \/ clearAuthToken("c1")

\* One request with retries and one healing call in a test that the runner may
\* cancel.
NextCancel ==
    \/ request("c1", "get", SomePath, [NoOptions EXCEPT !.retries = Some(2)])
    \/ executeRequestResolves(200, "OK", EmptyObject)
    \/ executeRequestRejects
    \/ textResolves(<<"1">>)
    \/ textRejects
    \/ backoffElapses
    \/ resilientLocator({}, "#submit", [role |-> Given("button"), text |-> Given("Submit"),
                                        placeholder |-> Undefined, testId |-> Undefined])
    \/ \E el \in Elements : elementAppears(el)
    \/ primaryVisible
    \/ primaryFails
    \/ strategyVisible
    \/ strategyFails
    \/ cancel

\* One call of autoHealLocator on one page.
NextHeal ==
    \/ callAutoHealLocator
    \/ \E el \in Elements : elementAppears(el)
    \/ primaryVisible
    \/ primaryFails
    \/ strategyVisible
    \/ strategyFails

\* One call of click on one page, with and without a healContext.
NextClick ==
    \/ \E pg \in Pages, loc \in PrimaryLocators, d \in Descriptions, hc \in HealContexts :
          click(pg, loc, d, hc)
    \/ clickResolves
    \/ clickRejects
    \/ \E el \in Elements : elementAppears(el)
    \/ primaryVisible
    \/ primaryFails
    \/ strategyVisible
    \/ strategyFails
    \/ autoHealResolves
    \/ autoHealRejects
    \/ healedClickResolves
    \/ healedClickRejects

\* The scenarios of one worker: Given-less scenarios of When GET and Then status
\* steps in any order.
NextScenarios ==
    \/ startScenario
    \/ whenSendGet(SomePath)
    \/ \E s \in {200, 404} : executeRequestResolves(s, "OK", EmptyObject)
    \/ executeRequestRejects
    \/ textResolves(<<"1">>)
    \/ textRejects
    \/ whenSendGetResolves
    \/ whenSendGetRejects
    \/ \E s \in {200, 404} : thenStatusShouldBe(s)

\* One run reported: tests of every status, with durations of 0, 5 and 7 ms, first
\* runs and retries, then the end of the run.
NextReporter ==
    \/ \E status \in {"passed", "failed", "skipped", "timedOut"}, duration \in {0, 5, 7},
          retry \in {0, 1} : onTestEnd(status, duration, retry)
    \/ onEnd

SpecClient == Init /\ [][NextClient]_vars

SpecRequest == Init /\ [][NextRequest]_vars

SpecParse == Init /\ [][NextParse]_vars

SpecOptions == Init /\ [][NextOptions]_vars

SpecLogging == Init /\ [][NextLogging]_vars

SpecAuth == InitAuth /\ [][NextAuth]_vars

SpecMetrics == Init /\ [][NextMetrics]_vars

SpecConcurrent == Init /\ [][NextConcurrent]_vars

SpecCancel == Init /\ [][NextCancel]_vars

SpecClick == Init /\ [][NextClick]_vars

SpecScenarios == Init /\ [][NextScenarios]_vars

SpecReporter == Init /\ [][NextReporter]_vars

SpecHeal == Init /\ [][NextHeal]_vars

\* SpecHeal where every waitFor() settles: it resolves or its timeout rejects it.
SpecHealFair ==
    /\ SpecHeal
    /\ WF_vars(primaryVisible \/ primaryFails)
    /\ WF_vars(strategyVisible \/ strategyFails)

\* ============================================================================
\* Claims about the HTTP request client
\* ============================================================================

\* The retry budget N of the call in flight: options.retries, or 1 when omitted.
Budget == IF retries.some THEN retries.val ELSE 1

\* Every transport attempt of the call so far failed.
EveryAttemptFailed == \A k \in 1..Len(responses) : responses[k].kind = "error"

\* C1: for every verb and every status the transport answers the request with,
\* the call returns a result with that status, throws nothing and dispatches the
\* request exactly once.
C1_StatusIsReturnedOnce ==
    (responses # <<>> /\ responses[1].kind = "response") =>
        /\ pc \in {"text", "returned"}
        /\ Len(requests) = 1
        /\ pc = "returned" => result.status = responses[1].status

C3_RetryThenSuccessReturns ==
    /\ \A j \in 1..Len(delays) : delays[j] = 1000 * j
    /\ Len(delays) < Budget \/ delays = <<>>
    /\ \A k \in 1..Len(responses) :
          (responses[k].kind = "response" /\ \A j \in 1..(k - 1) : responses[j].kind = "error")
              => /\ pc \in {"text", "returned"}
                 /\ Len(requests) = k
                 /\ pc = "returned" => result.status = responses[k].status

\* C4: a call that throws throws the transport error of an attempt it
\* dispatched, with the retry budget used up: it never throws without a
\* transport attempt having failed.
C4_ThrowsOnlyTransportErrors ==
    pc = "thrown" =>
        /\ requests # <<>>
        /\ Len(requests) = Budget
        /\ thrown.kind = "transport"
        /\ thrown.attempt \in 1..Len(responses)
        /\ responses[thrown.attempt].kind = "error"

\* C5: once the transport has returned a response to the call, whatever its
\* status, the request is never dispatched again and no backoff wait starts.
C5_NoDispatchAfterResponse ==
    \A k \in 1..Len(responses) :
        responses[k].kind = "response" => (Len(requests) = k /\ pc # "backoff")

\* ============================================================================
\* Claims about the self-healing locator
\* ============================================================================

\* The fixed order: role, exact text, placeholder, test id, partial text.
FixedOrder ==
    <<"By Role", "By Text (exact)", "By Placeholder", "By Test ID", "By Text (partial)">>

PrimaryWaitSettled(outcome) == waits # <<>> /\ waits[1].outcome = outcome

\* The context field the strategy called name requires.
RequiredField(name) ==
    CASE name = "By Role" -> context.role
      [] name = "By Text (exact)" -> context.text
      [] name = "By Placeholder" -> context.placeholder
      [] name = "By Test ID" -> context.testId
      [] name = "By Text (partial)" -> context.text

\* C6: if the primary locator becomes visible within config.timeout, the call
\* returns the primary locator itself, derives and waits on no fallback
\* strategy and logs no warning, whatever the context and the config.
C6_PrimarySuccessShortCircuits ==
    PrimaryWaitSettled("visible") =>
        /\ hpc = "returned"
        /\ healed = primaryLocator
        /\ located = <<>>
        /\ Len(waits) = 1
        /\ waits[1].timeout = config.timeout
        /\ \A i \in 1..Len(logCalls) : logCalls[i].level # "warn"

\* C6's case: the primary locator is returned with healing and warnings on, from
\* a page where the role strategy would have matched too.
C6_Witness ==
    /\ hpc = "returned"
    /\ PrimaryWaitSettled("visible")
    /\ config.enabled /\ config.logWarnings
    /\ context.role = Given("button")
    /\ RenamedButton \in page

\* C7: with enabled = false and a failed primary wait, the call throws the
\* not-found error naming context.originalSelector and derives and waits on no
\* fallback strategy.
C7_DisabledHealingFailsFast ==
    (PrimaryWaitSettled("timeout") /\ ~config.enabled) =>
        /\ hpc = "thrown"
        /\ healError = [kind |-> "notFound", selector |-> context.originalSelector]
        /\ located = <<>>
        /\ Len(waits) = 1
        /\ healed = NoLocator

\* C7's case: healing is off and the call has thrown on a page where the role
\* strategy would have found the element.
C7_Witness ==
    /\ hpc = "thrown"
    /\ ~config.enabled
    /\ PrimaryWaitSettled("timeout")
    /\ context.originalSelector = "Submit button"
    /\ context.role = Given("button")
    /\ RenamedButton \in page

\* C8: after a failed primary wait with healing on, the strategies are
\* evaluated one at a time in the fixed order; every strategy before the one in
\* flight has failed, the call returns exactly when a strategy's wait succeeds,
\* and it returns the first match of that strategy's locator.
C8_FirstStrategyInOrderWins ==
    (PrimaryWaitSettled("timeout") /\ config.enabled) =>
        /\ Len(located) <= Len(FixedOrder)
        /\ \A i \in 1..Len(located) : located[i] = FixedOrder[i]
        /\ Len(waits) = Len(located) + 1
        /\ \A i \in 2..(Len(waits) - 1) : waits[i].outcome = "timeout"
        /\ \A i \in 2..Len(waits) : waits[i].locator.first /\ waits[i].timeout = 2000
        /\ hpc = "strategyWait" <=> waits[Len(waits)].outcome = "pending"
        /\ hpc = "returned" <=> waits[Len(waits)].outcome = "visible"
        /\ hpc = "returned" => healed = waits[Len(waits)].locator

\* C8's case: the role strategy healed the locator, no other strategy was
\* evaluated, and the partial-text strategy would have matched as well.
C8_Witness ==
    /\ hpc = "returned"
    /\ located = <<"By Role">>
    /\ healed = first(getByRole("button", Given("Submit")))
    /\ resolvesTo(getByText("Submit", FALSE), page) # {}

\* C9: when the primary wait and every strategy's wait fail with healing on,
\* each of the five strategies was evaluated exactly once, in order, and the
\* call throws the heal-failed error naming context.originalSelector, which is
\* not the error of disabled healing; it returns no locator.
C9_ExhaustionThrowsHealFailed ==
    (/\ hpc \in {"returned", "thrown"}
     /\ config.enabled
     /\ \A i \in 1..Len(waits) : waits[i].outcome = "timeout") =>
        /\ hpc = "thrown"
        /\ located = FixedOrder
        /\ Len(waits) = 6
        /\ healError = [kind |-> "healFailed", selector |-> context.originalSelector]
        /\ healError # [kind |-> "notFound", selector |-> context.originalSelector]
        /\ healed = NoLocator

\* C9's case: all five strategies failed on a page that is not empty, for a
\* context that names a role and a text.
C9_Witness ==
    /\ hpc = "thrown"
    /\ healError.kind = "healFailed"
    /\ located = FixedOrder
    /\ context.role = Given("button")
    /\ context.text = Given("Submit")
    /\ page # {}

\* C10: a strategy whose required context field is absent derives a locator
\* that resolves to no element of the page, whatever the page holds, and is
\* never the strategy that heals.
C10_AbsentFieldMatchesNothing ==
    \A i \in 1..Len(located) :
        ~RequiredField(located[i]).some =>
            /\ resolvesTo(waits[i + 1].locator, page) = {}
            /\ waits[i + 1].outcome # "visible"

SchemeLetters == {"a", "b", "f", "h", "i", "n", "p", "s", "t"}

\* The path begins with a URL scheme prefix: letters, then "://".
isAbsoluteUrl(p) ==
    \E i \in 2..(Len(p) - 2) :
        /\ \A j \in 1..(i - 1) : p[j] \in SchemeLetters
        /\ p[i] = ":"
        /\ p[i + 1] = "/"
        /\ p[i + 2] = "/"

\* C12: every request is dispatched to the path itself when the path is an
\* absolute URL, and to baseUrl followed by the path when it is not.
C12_UrlVerbatimIffAbsolute ==
    \A k \in 1..Len(requests) :
        requests[k].url = IF isAbsoluteUrl(path) THEN path ELSE baseUrl \o path

\* C13: a request carries a body only when its verb is POST, PUT or PATCH, so
\* that a GET or DELETE request carries none whatever options.body is; and a
\* request of any verb carries options.params as its query parameters.
C13_BodyOnlyForPostPutPatch ==
    \A k \in 1..Len(requests) :
        /\ requests[k].options.data.some => requests[k].verb \in {"POST", "PUT", "PATCH"}
        /\ requests[k].verb \in {"GET", "DELETE"} => requests[k].options.data = NoData
        /\ requests[k].options.params = options.params

\* A DELETE was called with a body and params: the request carries the params
\* and no body.
C13_Witness ==
    /\ requests # <<>>
    /\ method = "DELETE"
    /\ truthy(options.body)
    /\ options.params.some
    /\ requests[1].options.params.val["page"] = <<"2">>
    /\ ~requests[1].options.data.some

\* C19: a call that returns has method the verb of the operation called, url
\* the URL its request was dispatched to, and status and statusText as the
\* transport answered.
C19_ResultEchoesRequestAndAnswer ==
    pc = "returned" =>
        /\ <<operation, result.method>> \in {<<"get", "GET">>, <<"post", "POST">>,
                                            <<"put", "PUT">>, <<"patch", "PATCH">>,
                                            <<"delete", "DELETE">>}
        /\ result.url = requests[Len(requests)].url
        /\ result.status = responses[Len(responses)].status
        /\ result.statusText = responses[Len(responses)].statusText

\* post('/p') answered 201 Created returned status 201, method POST and the
\* URL baseUrl + '/p'.
C19_Witness ==
    /\ pc = "returned"
    /\ operation = "post"
    /\ path = <<"/", "p">>
    /\ responses[Len(responses)].status = 201
    /\ result.status = 201
    /\ result.statusText = "Created"
    /\ result.method = "POST"
    /\ result.url = baseUrl \o <<"/", "p">>

\* The headers named in options.headers go out with the values given there.
OptionsOverride(k) ==
    \A key \in DOMAIN options.headers :
        /\ key \in DOMAIN requests[k].options.headers
        /\ requests[k].options.headers[key] = options.headers[key]

\* Header key goes out with value v, unless options.headers names it.
DefaultGoesOut(k, key, v) ==
    key \notin DOMAIN options.headers =>
        /\ key \in DOMAIN requests[k].options.headers
        /\ requests[k].options.headers[key] = v

\* C14 as stated: every request goes out with Content-Type and Accept
\* application/json and with Authorization 'Bearer t' for the token t that the
\* caller's last setAuthToken set when no clearAuthToken followed it, and with no
\* Authorization when there is no such token, each overridden by the call's
\* options.headers and by nothing else.
C14_JsonDefaultsAndBearerUnlessOverridden ==
    \A k \in 1..Len(requests) :
        /\ OptionsOverride(k)
        /\ DefaultGoesOut(k, "Content-Type", <<"application/json">>)
        /\ DefaultGoesOut(k, "Accept", <<"application/json">>)
        /\ tokenAtCall.state = "set" =>
               DefaultGoesOut(k, "Authorization", bearer(tokenAtCall.val))
        /\ (tokenAtCall.state # "set" /\ "Authorization" \notin DOMAIN options.headers) =>
               "Authorization" \notin DOMAIN requests[k].options.headers

\* The default headers of the caller when the call was made: the JSON defaults
\* overridden by the constructor's defaultHeaders, with Authorization as the
\* last setAuthToken or clearAuthToken left it.
DefaultsAtCall ==
    CASE tokenAtCall.state = "set" ->
             setKey(spread(JsonDefaults, defaultHeadersArg), "Authorization",
                    bearer(tokenAtCall.val))
      [] tokenAtCall.state = "cleared" ->
             deleteKey(spread(JsonDefaults, defaultHeadersArg), "Authorization")
      [] OTHER -> spread(JsonDefaults, defaultHeadersArg)

\* C14 amended: every request goes out with exactly the caller's default headers
\* overridden key by key by the call's options.headers, where the default
\* headers are the JSON Content-Type/Accept pair overridden key by key by the
\* constructor's defaultHeaders, with Authorization 'Bearer t' after
\* setAuthToken(t), no Authorization after clearAuthToken, and the constructor's
\* Authorization (if any) before either was called.
C14_DefaultsThenAuthThenOptions ==
    \A k \in 1..Len(requests) :
        requests[k].options.headers = spread(DefaultsAtCall, options.headers)

\* Client c1, whose token was set, sent a request whose options override Accept:
\* the bearer token and the JSON Content-Type go out with the overriding Accept.
C14_Witness ==
    /\ requests # <<>>
    /\ caller = "c1"
    /\ tokenAtCall = [state |-> "set", val |-> <<"t2">>]
    /\ options.headers = [k \in {"Accept"} |-> <<"text/plain">>]
    /\ requests[1].options.headers =
           [k \in {"Content-Type", "Accept", "Authorization"} |->
               CASE k = "Content-Type" -> <<"application/json">>
                 [] k = "Accept" -> <<"text/plain">>
                 [] k = "Authorization" -> <<"Bearer ", "t2">>]

\* C15: the object passed to the constructors as defaultHeaders keeps the
\* content it was passed with, and a request carries a bearer token only if it
\* is the token set on the client that sends it: a token set on one client is
\* never sent by another.
C15_AuthIsPerInstance ==
    /\ heap["passed"] = defaultHeadersArg
    /\ \A k \in 1..Len(requests) :
           LET h == requests[k].options.headers
           IN  ("Authorization" \in DOMAIN h /\ h["Authorization"][1] = "Bearer ") =>
                   /\ tokenAtCall.state = "set"
                   /\ h["Authorization"] = bearer(tokenAtCall.val)

\* Client c2 sent a request without Authorization although a token is set on
\* client c1.
C15_Witness ==
    /\ requests # <<>>
    /\ caller = "c2"
    /\ requests[1].client = "c2"
    /\ token["c1"].state = "set"
    /\ token["c2"].state = "none"
    /\ "Authorization" \notin DOMAIN requests[1].options.headers
    /\ heap["passed"] = EmptyObject

\* C18: in a returned result every header key is lower-case, and every header
\* the transport delivered is found under its lower-cased name with the value
\* delivered, as validateHeaders looks it up.
C18_HeaderKeysAreLowerCase ==
    pc = "returned" =>
        LET allHeaders == responses[Len(responses)].headers
        IN  /\ \A key \in DOMAIN result.headers : toLowerCase(key) = key
            /\ \A key \in DOMAIN allHeaders :
                   /\ toLowerCase(key) \in DOMAIN result.headers
                   /\ result.headers[toLowerCase(key)] = allHeaders[key]

\* C20: a call that returned added exactly one entry to the collector's
\* response times since it was made, the responseTime of its result; a call
\* that is suspended after any number of failed attempts, or that threw, added
\* none.
C20_OneResponseTimePerReturn ==
    /\ pc = "returned" => apiResponseTimes = Append(metricsAtCall, result.responseTime)
    /\ pc \in {"transport", "text", "backoff", "thrown"} => apiResponseTimes = metricsAtCall

\* A second call returned on its second attempt, one tick after that attempt
\* started, and the collector holds the first call's time and this one.
C20_Witness ==
    /\ pc = "returned"
    /\ calls = 2
    /\ Len(requests) = 2
    /\ responses[1].kind = "error"
    /\ result.responseTime = 1
    /\ Len(metricsAtCall) = 1
    /\ apiResponseTimes = Append(metricsAtCall, 1)

\* C16: once the test is cancelled, a suspended makeRequest dispatches no
\* further request and a suspended autoHealLocator starts no further wait.
C16_NoWorkAfterCancellation ==
    [][cancelled =>
          /\ pc \in {"transport", "text", "backoff"} => Len(requests') <= Len(requests)
          /\ hpc \in {"primaryWait", "strategyWait"} => Len(waits') <= Len(waits)]_vars

\* The call returned a locator that a fallback strategy found.
HealedByFallback == hpc = "returned" /\ Len(waits) > 1

\* The last call on the logger is a warning naming the strategy that healed
\* and the original selector.
HealWarningLogged ==
    /\ logCalls # <<>>
    /\ logCalls[Len(logCalls)].level = "warn"
    /\ logCalls[Len(logCalls)].strategy = HEALING_STRATEGIES[strategy]
    /\ logCalls[Len(logCalls)].selector = context.originalSelector

\* The last call on the logger is an error naming the original selector.
HealErrorLogged ==
    /\ logCalls # <<>>
    /\ logCalls[Len(logCalls)].level = "error"
    /\ logCalls[Len(logCalls)].selector = context.originalSelector

C21_TimeoutIsSuppliedOrDefault ==
    \A k \in 1..Len(requests) :
        requests[k].options.timeout =
            IF options.timeout.some THEN options.timeout.val ELSE API_TIMEOUT

\* C22: a POST, PUT or PATCH request whose caller supplied options.body carries
\* that body, whatever value it is.
C22_SuppliedBodyIsTransmitted ==
    \A k \in 1..Len(requests) :
        (requests[k].verb \in {"POST", "PUT", "PATCH"} /\ options.body # JsUndefined) =>
            /\ requests[k].options.data.some
            /\ requests[k].options.data.val = options.body

\* C23: logging never changes what a call does: no call ends with an error
\* raised by a logger call, and whether logging is enabled or not a call that
\* has a retry budget dispatches its first request.
C23_LoggingIsObservational ==
    /\ thrown.kind # "stringify"
    /\ healError.kind # "stringify"
    /\ (pc # "idle" /\ maxRetries >= 1) => requests # <<>>

\* C24: when the context names no role, text, placeholder or testId and the
\* primary wait failed with healing enabled, each strategy derives the
\* locate-nothing query, which resolves to no element, and the call ends by
\* throwing the heal-failed error without returning a locator.
C24_EmptyContextFailsHealing ==
    (/\ context.role = Undefined
     /\ context.text = Undefined
     /\ context.placeholder = Undefined
     /\ context.testId = Undefined
     /\ config.enabled
     /\ PrimaryWaitSettled("timeout")) =>
        /\ \A i \in 2..Len(waits) :
               /\ waits[i].locator = first(nonexistent)
               /\ resolvesTo(waits[i].locator, page) = {}
        /\ hpc # "returned"
        /\ healed = NoLocator
        /\ hpc = "thrown" => healError = healFailedError(context)

\* C29: a call makes one primary wait and then at most one wait per strategy,
\* in the order of the array and never one strategy twice, six waits at most;
\* and if every wait settles, the call returns or throws.
C29_EveryCallTerminates ==
    /\ [](hpc # "idle" =>
             /\ Len(waits) = 1 + Len(located)
             /\ Len(waits) <= 6
             /\ located = SubSeq(FixedOrder, 1, Len(located)))
    /\ (hpc \in {"primaryWait", "strategyWait"}) ~> (hpc \in {"returned", "thrown"})

\* The call returned after six waits: the fifth strategy healed the locator.
C29_Witness ==
    /\ hpc = "returned"
    /\ Len(waits) = 6
    /\ strategy = 5

\* C28: the responseTime of a returned result is the time from the dispatch of
\* the attempt that succeeded to the transport's answer to it: the time of
\* earlier attempts, of backoff waits and of reading the body is not in it.
C28_ResponseTimeIsTheSuccessfulAttempts ==
    pc = "returned" =>
        result.responseTime =
            responses[Len(responses)].at - dispatchedAt[Len(dispatchedAt)]

\* A call returned on its second attempt, which was dispatched after the clock
\* had advanced and took one tick, and reading the body took more time.
C28_Witness ==
    /\ pc = "returned"
    /\ Len(requests) = 2
    /\ dispatchedAt[2] > dispatchedAt[1]
    /\ result.responseTime = 1
    /\ now > responses[2].at

\* How many of a call's own attempts failed: the transport rejected or the body
\* could not be read.
ownFailures(f) ==
    Cardinality({i \in 1..Len(f.responses) : f.responses[i].kind = "error"})
        + Cardinality({i \in 1..Len(f.texts) : f.texts[i].kind = "error"})

\* The client's default headers given what was last done to its token.
defaultsGiven(tok) ==
    CASE tok.state = "set" ->
             setKey(spread(JsonDefaults, defaultHeadersArg), "Authorization", bearer(tok.val))
      [] tok.state = "cleared" ->
             deleteKey(spread(JsonDefaults, defaultHeadersArg), "Authorization")
      [] OTHER -> spread(JsonDefaults, defaultHeadersArg)

\* A call is what its own arguments and its own transport outcomes make it:
\* every attempt carries the headers of the moment the call was made, the
\* attempts and the backoff waits count its own failures only, and what it
\* returns or throws comes from its own last attempt.
isolated(f) ==
    f.pc # "idle" =>
        LET n == ownFailures(f)
            budget == resolveRetries(f.options.retries)
        IN  /\ \A k \in 1..Len(f.requests) :
                   f.requests[k] =
                       executeRequest(f.caller, k, verbOf(f.operation), resolveUrl(f.path),
                                      spread(defaultsGiven(f.tokenAtCall), f.options.headers),
                                      f.options, resolveTimeout(f.options.timeout))
            /\ Len(f.requests) = IF f.pc \in {"transport", "text", "returned"} THEN n + 1 ELSE n
            /\ Len(f.requests) <= budget
            /\ f.delays = [k \in 1..(IF n < budget THEN n ELSE budget - 1) |-> BackoffUnit * k]
            /\ f.pc = "thrown" =>
                   /\ n = budget
                   /\ f.thrown \in {TransportError(budget), BodyReadError(budget)}
            /\ f.pc = "returned" =>
                   f.result = parseResponse(f.responses[Len(f.responses)], verbOf(f.operation),
                                            resolveUrl(f.path),
                                            f.responses[Len(f.responses)].at
                                                - f.dispatchedAt[Len(f.dispatchedAt)],
                                            f.texts[Len(f.texts)].text)

\* C27: with two calls of one client in flight at once and the client's token
\* set and cleared meanwhile, each call's attempts, backoff waits, headers and
\* outcome are those of its own arguments and its own transport outcomes.
C27_CallsAreIsolated == isolated(frame) /\ isolated(suspended)

\* A call made before the token was set returned on its second attempt without
\* Authorization, while the other call, made after the token was set, waits in
\* its backoff.
C27_Witness ==
    /\ pc = "returned"
    /\ Len(requests) = 2
    /\ tokenAtCall.state = "none"
    /\ "Authorization" \notin DOMAIN requests[2].options.headers
    /\ suspended.pc = "backoff"
    /\ suspended.tokenAtCall.state = "set"
    /\ "Authorization" \in DOMAIN suspended.requests[1].options.headers

\* C26: click calls autoHealLocator only after its click failed and only when a
\* healContext was given.  Without one the click's error is thrown and nothing
\* else is done.  With one autoHealLocator is called exactly once, with the
\* description as originalSelector; when it returns exactly one further click
\* is made, on the locator returned, and when it throws its error is thrown and
\* no further click is made.
C26_HealOnlyOnFailureWithContext ==
    LET bp == basePage
        failed == bp.clicks # <<>> /\ bp.clicks[1].outcome = "failed"
    IN  /\ Len(bp.clicks) <= 2
        /\ Len(bp.healCalls) = IF failed /\ bp.healContext.some THEN 1 ELSE 0
        /\ bp.healCalls # <<>> =>
               /\ bp.healCalls[1].primaryLocator = bp.locator
               /\ bp.healCalls[1].context.originalSelector = bp.description
               /\ context = bp.healCalls[1].context
        /\ (failed /\ ~bp.healContext.some) =>
               /\ bp.pc = "thrown"
               /\ bp.thrown = ClickError(bp.locator)
               /\ Len(bp.clicks) = 1
               /\ hpc = "idle"
        /\ Len(bp.clicks) = 2 <=> (bp.healCalls # <<>> /\ hpc = "returned" /\ bp.pc # "healing")
        /\ Len(bp.clicks) = 2 => bp.clicks[2].locator = healed
        /\ (bp.healCalls # <<>> /\ hpc = "thrown" /\ bp.pc # "healing") =>
               /\ bp.pc = "thrown"
               /\ bp.thrown = healError
               /\ Len(bp.clicks) = 1

\* A click with a healContext failed, a fallback strategy found another
\* locator, and the second click, on that locator, succeeded.
C26_Witness ==
    /\ basePage.pc = "returned"
    /\ Len(basePage.clicks) = 2
    /\ basePage.clicks[1].outcome = "failed"
    /\ basePage.clicks[2].outcome = "clicked"
    /\ basePage.clicks[2].locator = healed
    /\ healed # basePage.locator
    /\ context.originalSelector = basePage.description

\* C25: every scenario starts with a lastResponse that no earlier scenario
\* stored, and every response a Then step reads was stored by a When step of
\* the scenario the Then step belongs to.
C25_FreshLastResponsePerScenario ==
    /\ apiSteps.startedWith = 0
    /\ \A o \in apiSteps.observed : o.storedBy = o.scenario

\* C30: in the summary onEnd writes for a run with at least one recorded test,
\* minDuration is the smallest recorded duration and maxDuration the largest,
\* so either is 0 only if a recorded duration is 0.
C30_MinAndMaxOfRecordedDurations ==
    (reporter.ended /\ reporter.tests # <<>>) =>
        LET recorded == {reporter.tests[i].duration : i \in 1..Len(reporter.tests)}
        IN  /\ reporter.summary.minDuration \in recorded
            /\ reporter.summary.maxDuration \in recorded
            /\ \A d \in recorded :
                   /\ reporter.summary.minDuration <= d
                   /\ d <= reporter.summary.maxDuration

====
